---- MODULE Spec2Model ----
(***************************************************************************)
(* A model of the arXiv crawler: ArxivCrawlerBase (arxiv_crawler_base.py)  *)
(* and its two platform variants, ArxivCrawlerLinux (aria2c fast path) and *)
(* ArxivCrawlerWindows (IDM fast path).  One process invocation is one     *)
(* call of run() or of download_paper(); the filesystem tree under         *)
(* save_dir is the only state that survives from one invocation to the     *)
(* next.                                                                   *)
(***************************************************************************)
EXTENDS Integers, Sequences, FiniteSets, TLC

\* ------------------------------------------------------------------ bounds
\* Number of process invocations (run() or download_paper()) in a behaviour.
MaxCalls == 2
\* Number of one-second sleeps of the IDM polling loop before the 300 s
\* window has elapsed (the window scaled down).
MaxPolls == 1
\* Number of records in one date section of a mapping handed to
\* generate_markdown.
MaxRecords == 2

\* ------------------------------------------------- configuration, constants
\* retry=3, the default of download_single_paper / download_paper.
retry == 3
\* The pool sizes (--workers) a crawler is constructed with.
PoolSizes == {1, 2}

\* ------------------------------------------------------- the paper universe
\* Characters are their code points: "A" = 65, "B" = 66, "a" = 97, "b" = 98.
\* A datetime is <<day, hour>>.  The index holds two papers whose titles
\* ("Ab", "ab") differ only in case; one was updated after publication.
PaperA == [id |-> 1, title |-> <<65, 98>>, published |-> <<1, 8>>, updated |-> <<2, 10>>]
PaperB == [id |-> 2, title |-> <<97, 98>>, published |-> <<1, 9>>, updated |-> <<1, 9>>]

\* What the index returns, most recent submission first
\* (sort_by = SubmittedDate).
IndexOrder == <<PaperB, PaperA>>

Papers == {IndexOrder[i] : i \in 1..Len(IndexOrder)}

\* datetime.today() of the runs.
RunDay == <<3, 6>>

\* The canonical path of a paper's PDF in the filesystem layout:
\* <root>/pdfs/<published_date>/<id>.pdf
CanonicalPdf(paper) == <<"pdfs", paper.published[1], paper.id>>

\* ---------------------------------------------------------- pure functions
\* datetime.strftime("%Y-%m-%d"): the day, the time of day dropped.
strftime(dt) == dt[1]

\* paper.get_short_id()
get_short_id(paper) == paper.id

\* ArxivCrawlerBase.format_date
format_date(date) == strftime(date)

\* ArxivCrawlerBase.get_date_dir: base_dir / date_str
get_date_dir(date_str, base_dir) == <<base_dir, date_str>>

\* date_pdf_dir / f"{paper_id}.pdf" as download_single_paper derives it
pdf_path(paper) == <<"pdfs", strftime(paper.published), get_short_id(paper)>>

\* info_path of save_paper_info: info/<updated>/<id>.json
info_path(paper) ==
    LET d == get_date_dir(strftime(paper.updated), "info")
    IN  <<d[1], d[2], get_short_id(paper)>>

\* markdown_dir / f"papers_{date}.md"
markdown_path(date) == <<"markdown", date>>

\* str.lower() on one character and on a string
LowerChar(c) == IF c \in 65..90 THEN c + 32 ELSE c
Lower(s) == [i \in 1..Len(s) |-> LowerChar(s[i])]

\* Python's < on strings: lexicographic on code points, a proper prefix first.
RECURSIVE StrLess(_, _)
StrLess(s, t) ==
    IF t = <<>> THEN FALSE
    ELSE IF s = <<>> THEN TRUE
    ELSE IF s[1] # t[1] THEN s[1] < t[1]
    ELSE StrLess(Tail(s), Tail(t))

\* The titles compared as they are, upper case before lower case.
TitleKey_CaseSensitive(paper) == paper.title

\* the sort key of generate_markdown: x.title.lower()
TitleKey(paper) == Lower(paper.title)

\* list.sort(key=...): stable; an element goes behind every element whose
\* key is not greater than its own.
RECURSIVE InsertByKey(_, _)
InsertByKey(sorted, x) ==
    IF sorted = <<>> THEN <<x>>
    ELSE IF StrLess(TitleKey(x), TitleKey(sorted[1]))
         THEN <<x>> \o sorted
         ELSE <<sorted[1]>> \o InsertByKey(Tail(sorted), x)

RECURSIVE SortByTitle(_)
SortByTitle(list) ==
    IF list = <<>> THEN <<>>
    ELSE InsertByKey(SortByTitle(SubSeq(list, 1, Len(list) - 1)), list[Len(list)])

\* sorted(papers_by_date.items(), reverse=True): the keys, greatest first
RECURSIVE KeysDescending(_)
KeysDescending(keys) ==
    IF keys = {} THEN <<>>
    ELSE LET m == CHOOSE k \in keys : \A j \in keys : j <= k
         IN  <<m>> \o KeysDescending(keys \ {m})

RECURSIVE SumLen(_, _)
SumLen(m, keys) ==
    IF keys = {} THEN 0
    ELSE LET k == CHOOSE k \in keys : TRUE
         IN  Len(m[k]) + SumLen(m, keys \ {k})

\* The text generate_markdown writes: the heading's date, one section per
\* date key with its records, and the statistics block.
generate_markdown(papers_by_date, date) ==
    LET keys == KeysDescending(DOMAIN papers_by_date)
    IN  [ heading  |-> date,
          sections |-> [i \in 1..Len(keys) |->
                          [pub_date |-> keys[i],
                           records  |-> SortByTitle(papers_by_date[keys[i]])]],
          total    |-> SumLen(papers_by_date, DOMAIN papers_by_date),
          range    |-> <<keys[Len(keys)], keys[1]>> ]

\* check_paper_exists looking under the date of the last update, the date
\* save_paper_info files the metadata under.
ExistsAt_Updated(files, paper) ==
    <<"pdfs", format_date(paper.updated), get_short_id(paper)>> \in DOMAIN files

\* ArxivCrawlerBase.check_paper_exists on a filesystem
ExistsAt(files, paper) ==
    LET pub_date == format_date(paper.published)
        d == get_date_dir(pub_date, "pdfs")
    IN  <<d[1], d[2], get_short_id(paper)>> \in DOMAIN files

\* The check made on pdf_dir / f"{paper_id}.pdf", the date directory left out.
AlreadyDownloaded_Undated(files, paper) ==
    <<"pdfs", get_short_id(paper)>> \in DOMAIN files

\* pdf_path.exists() at the head of download_single_paper
AlreadyDownloaded(files, paper) == pdf_path(paper) \in DOMAIN files

\* files with one more file, or one file rewritten
WriteFile(files, path, content) ==
    [q \in DOMAIN files \cup {path} |-> IF q = path THEN content ELSE files[q]]

\* ------------------------------------------------------------------- state
VARIABLES
    platform,          \* "linux" (ArxivCrawlerLinux) or "windows" (ArxivCrawlerWindows)
    toolInstalled,     \* the fast-path executable (aria2c, IDMan.exe) can be located
    max_workers,       \* self.max_workers
    fs,                \* the tree under save_dir: path -> content
    idmPending,        \* papers handed to IDM whose download it has not delivered
    calls,             \* process invocations so far
    mainpc,            \* position of the coordinating thread
    exitStatus,        \* how the last invocation ended
    papers,            \* run(): the search result
    new_papers,        \* run(): the candidates without a PDF
    tasks,             \* one download_single_paper invocation per submitted future
    finished,          \* task indices in the order the futures completed
    ncollected,        \* futures as_completed has handed to the loop body
    downloaded_papers, \* run(): the list the digest is made from
    raised,            \* the exception propagating in the coordinating thread
    saveFailed,        \* papers whose save_paper_info raised in this run
    digestWrites,      \* generate_markdown calls of this run
    existing,          \* search hits of this run whose canonical PDF was in place
    savedInfo,         \* papers whose metadata file this run has written
    failedBefore,      \* papers the run before this invocation ended in Failure for
    lastSuccesses,     \* <<the papers downloaded in the latest earlier run that had a Success>>
    orderOne,          \* digest comparison: one order the downloads completed in
    orderTwo,          \* digest comparison: another order of the same downloads
    digestOne,         \* digest comparison: <<the digest of orderOne>>, once made
    digestTwo,         \* digest comparison: <<the digest of orderTwo>>, once made
    mapping,           \* generate_markdown alone: the papers_by_date it is called with
    rendered           \* generate_markdown alone: <<what it wrote>>, once called

vars == <<platform, toolInstalled, max_workers, fs, idmPending, calls, mainpc, exitStatus,
          papers, new_papers, tasks, finished, ncollected, downloaded_papers,
          raised, saveFailed, digestWrites, existing, savedInfo, failedBefore,
          lastSuccesses, orderOne, orderTwo, digestOne, digestTwo,
          mapping, rendered>>

comparison == <<orderOne, orderTwo, digestOne, digestTwo, mapping, rendered>>
env == <<platform, toolInstalled, max_workers, comparison>>
runVars == <<papers, new_papers, downloaded_papers, saveFailed, digestWrites,
             existing, savedInfo, failedBefore, lastSuccesses>>
mainVars == <<calls, mainpc, exitStatus, ncollected, raised>>

\* A future and the download_single_paper invocation behind it.
\*   existed: the canonical PDF was there when the invocation began
\*   late:    a worker had already met the missing executable when it began
\*   slept:   inside the loop of the plain download, time.sleep(3) was called
\*            since the latest requests.get
\*   got200:  the response in hand has status_code 200
\*   exitcode: result.returncode of the IDM subprocess, until the plain
\*            download begins
\*   atCheck: what the existence test after the polling loop found
\*   clash:   another writer wrote the PDF while the invocation had it open
NewTask(paper) ==
    [ paper   |-> paper,
      pc      |-> "queued",
      attempt |-> 0,
      polls   |-> 0,
      nsub    |-> 0,
      nget    |-> 0,
      wrote   |-> FALSE,
      all500  |-> TRUE,
      fast    |-> "none",
      result  |-> "none",
      existed |-> FALSE,
      late    |-> FALSE,
      slept   |-> FALSE,
      got200  |-> FALSE,
      exitcode |-> "none",
      atCheck |-> "none",
      clash   |-> FALSE ]

Running == {t \in DOMAIN tasks : tasks[t].pc \notin {"queued", "done"}}

\* A pool that starts a thread for every work item.
WorkerFree_Unbounded == TRUE

\* ThreadPoolExecutor: a work item is taken when one of the max_workers
\* threads is not inside an invocation.
WorkerFree == Cardinality(Running) < max_workers

CrawlerInit ==
    /\ platform \in {"linux", "windows"}
    /\ toolInstalled \in BOOLEAN
    /\ max_workers \in PoolSizes
    /\ fs = <<>>
    /\ idmPending = {}
    /\ calls = 0
    /\ mainpc = "idle"
    /\ exitStatus = "none"
    /\ papers = <<>>
    /\ new_papers = <<>>
    /\ tasks = <<>>
    /\ finished = <<>>
    /\ ncollected = 0
    /\ downloaded_papers = <<>>
    /\ raised = "none"
    /\ saveFailed = {}
    /\ digestWrites = 0
    /\ existing = {}
    /\ savedInfo = {}
    /\ failedBefore = {}
    /\ lastSuccesses = <<>>

Init ==
    /\ CrawlerInit
    /\ orderOne = <<>>
    /\ orderTwo = <<>>
    /\ digestOne = <<>>
    /\ digestTwo = <<>>
    /\ mapping = <<>>
    /\ rendered = <<>>

\* ------------------------------------------------ download_single_paper
\* The record of task t with the fields of r replaced.
Upd(t, r) == [tasks EXCEPT ![t] = [f \in DOMAIN tasks[t] |->
                 IF f \in DOMAIN r THEN r[f] ELSE tasks[t][f]]]

\* The invocation returns (or raises): the future completes.
Complete(t, r) ==
    /\ tasks' = Upd(t, r @@ [pc |-> "done"])
    /\ finished' = Append(finished, t)

\* Lines 38-49.  A pool worker takes the oldest queued work item when one
\* of the max_workers threads is free; download_paper() runs its single
\* invocation in the calling thread.  The invocation creates the date
\* directory and returns True when the PDF is already there.
DownloadBegin(t) ==
    /\ mainpc \in {"collect", "shutdown", "direct"}
    /\ tasks[t].pc = "queued"
    /\ \A u \in 1..(t - 1) : tasks[u].pc # "queued"
    /\ WorkerFree
    /\ LET seen == [ existed |-> CanonicalPdf(tasks[t].paper) \in DOMAIN fs,
                     late    |-> \E u \in DOMAIN tasks : tasks[u].fast = "missing" ]
       IN  IF AlreadyDownloaded(fs, tasks[t].paper)
           THEN Complete(t, seen @@ [result |-> "Success"])
           ELSE /\ tasks' = Upd(t, seen @@ [pc |-> "fast"])
                /\ UNCHANGED finished
    /\ UNCHANGED <<env, fs, idmPending, mainVars, runVars>>

\* Linux, lines 52-83: subprocess.run(["aria2c", ...]).  A missing executable
\* raises FileNotFoundError and the handler calls sys.exit(1); the SystemExit
\* ends the invocation and is stored in the future.  Otherwise aria2c runs:
\* exit code 0 with the file in place, or a non-zero exit code with nothing or
\* with the part it fetched left at the output path; any other exception of
\* subprocess.run is logged.  Everything but exit code 0 falls through to the
\* plain download.  subprocess.run is given no timeout: while aria2c does not
\* exit the invocation stays in it.
FastPathAria2c(t) ==
    /\ platform = "linux"
    /\ tasks[t].pc = "fast"
    /\ IF ~toolInstalled
       THEN /\ Complete(t, [fast |-> "missing", result |-> "SystemExit"])
            /\ UNCHANGED fs
       ELSE \E out \in {"zero", "nonzero", "nonzero_partial", "exception",
                         "never_exits"} :
              CASE out = "zero" ->
                     /\ fs' = WriteFile(fs, pdf_path(tasks[t].paper), "complete")
                     /\ Complete(t, [fast |-> "ok", nsub |-> tasks[t].nsub + 1,
                                     result |-> "Success"])
                [] out = "nonzero" ->
                     /\ tasks' = Upd(t, [fast |-> "failed", nsub |-> tasks[t].nsub + 1,
                                         pc |-> "get"])
                     /\ UNCHANGED <<fs, finished>>
                [] out = "nonzero_partial" ->
                     /\ fs' = WriteFile(fs, pdf_path(tasks[t].paper), "partial")
                     /\ tasks' = Upd(t, [fast |-> "failed", nsub |-> tasks[t].nsub + 1,
                                         pc |-> "get"])
                     /\ UNCHANGED finished
                [] out = "exception" ->
                     /\ tasks' = Upd(t, [fast |-> "failed", nsub |-> tasks[t].nsub + 1,
                                         pc |-> "get"])
                     /\ UNCHANGED <<fs, finished>>
                [] out = "never_exits" ->
                     /\ tasks' = Upd(t, [nsub |-> tasks[t].nsub + 1, pc |-> "blocked"])
                     /\ UNCHANGED <<fs, finished>>
    /\ UNCHANGED <<env, idmPending, mainVars, runVars>>

\* IDM handled the way the Linux class handles aria2c: without the
\* executable the invocation calls sys.exit(1).
FastPathIdm_ExitsWithoutTool(t) ==
    /\ platform = "windows"
    /\ tasks[t].pc = "fast"
    /\ IF ~toolInstalled
       THEN /\ Complete(t, [fast |-> "missing", result |-> "SystemExit"])
            /\ UNCHANGED idmPending
       ELSE /\ \E out \in {"zero", "nonzero"} :
                 tasks' = Upd(t, [nsub |-> tasks[t].nsub + 1, exitcode |-> out,
                                  pc |-> "poll"])
            /\ idmPending' = idmPending \cup {tasks[t].paper}
            /\ UNCHANGED finished
    /\ UNCHANGED <<env, fs, mainVars, runVars>>

\* Windows, lines 44-64 and 79-83: look IDMan.exe up; without it go on to the
\* plain download.  With it, subprocess.run hands the URL to IDM, which
\* downloads on its own; the exit code is kept in result and not looked at.
\* An exception of subprocess.run is logged and the plain download follows.
\* subprocess.run is given no timeout: while IDMan.exe does not exit the
\* invocation stays in it.
FastPathIdm(t) ==
    /\ platform = "windows"
    /\ tasks[t].pc = "fast"
    /\ IF ~toolInstalled
       THEN /\ tasks' = Upd(t, [fast |-> "unavailable", pc |-> "get"])
            /\ UNCHANGED idmPending
       ELSE \E out \in {"zero", "nonzero", "exception", "never_exits"} :
              CASE out \in {"zero", "nonzero"} ->
                     /\ tasks' = Upd(t, [nsub |-> tasks[t].nsub + 1, exitcode |-> out,
                                         pc |-> "poll"])
                     /\ idmPending' = idmPending \cup {tasks[t].paper}
                [] out = "exception" ->
                     /\ tasks' = Upd(t, [fast |-> "failed", nsub |-> tasks[t].nsub + 1,
                                         pc |-> "get"])
                     /\ UNCHANGED idmPending
                [] out = "never_exits" ->
                     /\ tasks' = Upd(t, [nsub |-> tasks[t].nsub + 1, pc |-> "blocked"])
                     /\ UNCHANGED idmPending
    /\ UNCHANGED <<env, fs, finished, mainVars, runVars>>

\* The time of the polling loop is over: time.time() - start_time > timeout
PollWindowOver(polls) == polls >= MaxPolls

\* Windows, lines 66-73: one turn of the polling loop.
IdmPoll(t) ==
    /\ platform = "windows"
    /\ tasks[t].pc = "poll"
    /\ IF AlreadyDownloaded(fs, tasks[t].paper) \/ PollWindowOver(tasks[t].polls)
       THEN tasks' = Upd(t, [pc |-> "polled"])
       ELSE tasks' = Upd(t, [polls |-> tasks[t].polls + 1])
    /\ UNCHANGED <<env, fs, idmPending, finished, mainVars, runVars>>

\* Success declared only when IDMan.exe also exited with code 0.
FileDecides_AndExitCode(files, task) ==
    AlreadyDownloaded(files, task.paper) /\ task.exitcode = "zero"

\* Windows, line 75: if pdf_path.exists()
FileDecides(files, task) == AlreadyDownloaded(files, task.paper)

\* Windows, lines 75-77: after the loop, the file decides.
IdmResult(t) ==
    /\ platform = "windows"
    /\ tasks[t].pc = "polled"
    /\ LET found == IF CanonicalPdf(tasks[t].paper) \in DOMAIN fs
                     THEN "present" ELSE "absent"
       IN  IF FileDecides(fs, tasks[t])
           THEN Complete(t, [fast |-> "ok", atCheck |-> found, result |-> "Success"])
           ELSE /\ tasks' = Upd(t, [fast |-> "failed", atCheck |-> found,
                                    exitcode |-> "none", pc |-> "get"])
                /\ UNCHANGED finished
    /\ UNCHANGED <<env, fs, idmPending, mainVars, runVars>>

\* IDM, a process of its own, finishes a download it was handed and puts the
\* file at the path it was given, whether or not an invocation has that path
\* open for writing at the time.
IdmDeliver(paper) ==
    /\ paper \in idmPending
    /\ idmPending' = idmPending \ {paper}
    /\ fs' = WriteFile(fs, pdf_path(paper), "complete")
    /\ tasks' = [t \in DOMAIN tasks |->
                   IF tasks[t].pc = "writing" /\ pdf_path(tasks[t].paper) = pdf_path(paper)
                   THEN [tasks[t] EXCEPT !.clash = TRUE]
                   ELSE tasks[t]]
    /\ UNCHANGED <<env, finished, mainVars, runVars>>

\* The loop written as range(retry + 1).
MoreAttempts_OneMore(attempt) == attempt <= retry

\* the loop "for attempt in range(retry)" has another turn
MoreAttempts(attempt) == attempt < retry

\* requests.get with the body written whatever the status is.
HttpGet_AnyStatus(t) ==
    /\ tasks[t].pc = "get"
    /\ MoreAttempts(tasks[t].attempt)
    /\ \E resp \in {"200", "500", "exception"} :
         tasks' = Upd(t, [nget |-> tasks[t].nget + 1, slept |-> FALSE,
                          got200 |-> resp = "200"] @@
            CASE resp \in {"200", "500"} -> [all500 |-> resp = "500" /\ tasks[t].all500,
                                             pc |-> "write"]
              [] resp = "exception" -> [all500 |-> FALSE, pc |-> "sleep"])
    /\ UNCHANGED <<env, fs, idmPending, finished, mainVars, runVars>>

\* Lines 86-89 and 94-98: requests.get.  A status other than 200 is logged and
\* the next turn follows at once; an exception is logged and followed by
\* time.sleep(3).
HttpGet(t) ==
    /\ tasks[t].pc = "get"
    /\ MoreAttempts(tasks[t].attempt)
    /\ \E resp \in {"200", "500", "exception"} :
         tasks' = Upd(t, [nget |-> tasks[t].nget + 1, slept |-> FALSE,
                          got200 |-> resp = "200"] @@
            CASE resp = "200" -> [all500 |-> FALSE, pc |-> "write"]
              [] resp = "500" -> [attempt |-> tasks[t].attempt + 1]
              [] resp = "exception" -> [all500 |-> FALSE, pc |-> "sleep"])
    /\ UNCHANGED <<env, fs, idmPending, finished, mainVars, runVars>>

\* Line 90 and 96-98: open(pdf_path, "wb").  It creates or truncates the
\* file, or raises and leaves things as they are.
HttpOpen(t) ==
    /\ tasks[t].pc = "write"
    /\ \E out \in {"opened", "open_raises"} :
         IF out = "opened"
         THEN /\ fs' = WriteFile(fs, pdf_path(tasks[t].paper), "partial")
              /\ tasks' = Upd(t, [wrote |-> TRUE, pc |-> "writing"])
         ELSE /\ tasks' = Upd(t, [pc |-> "sleep"])
              /\ UNCHANGED fs
    /\ UNCHANGED <<env, idmPending, finished, mainVars, runVars>>

\* Lines 91-93 and 96-98: f.write(response.content) and the close of the
\* file.  f.write can raise, and leaves the file with what was written of the
\* body.
HttpWrite(t) ==
    /\ tasks[t].pc = "writing"
    /\ \E out \in {"written", "write_raises"} :
         IF out = "written"
         THEN /\ fs' = WriteFile(fs, pdf_path(tasks[t].paper), "complete")
              /\ Complete(t, [result |-> "Success"])
         ELSE /\ fs' = WriteFile(fs, pdf_path(tasks[t].paper), "partial")
              /\ tasks' = Upd(t, [pc |-> "sleep"])
              /\ UNCHANGED finished
    /\ UNCHANGED <<env, idmPending, mainVars, runVars>>

\* Line 98: time.sleep(3) in the except branch, then the next turn.
Backoff(t) ==
    /\ tasks[t].pc = "sleep"
    /\ tasks' = Upd(t, [attempt |-> tasks[t].attempt + 1, pc |-> "get",
                        slept |-> TRUE, got200 |-> FALSE])
    /\ UNCHANGED <<env, fs, idmPending, finished, mainVars, runVars>>

\* Lines 100-101: the loop is over, return False.
GiveUp(t) ==
    /\ tasks[t].pc = "get"
    /\ ~MoreAttempts(tasks[t].attempt)
    /\ Complete(t, [slept |-> FALSE, result |-> "Failure"])
    /\ UNCHANGED <<env, fs, idmPending, mainVars, runVars>>

\* ------------------------------------------------------------------ run()
\* The dictionary save_paper_info dumps (the fields the model carries).
InfoOf(paper) ==
    [ id        |-> get_short_id(paper),
      title     |-> paper.title,
      published |-> strftime(paper.published),
      updated   |-> strftime(paper.updated) ]

\* Line 109: [paper for paper in papers if not self.check_paper_exists(paper)]
NewPapers(found, files) == SelectSeq(found, LAMBDA paper : ~ExistsAt(files, paper))

\* A new process begins: what the last one held in memory is gone.
FreshProcess ==
    /\ mainpc \in {"idle", "ended"}
    /\ calls < MaxCalls
    /\ calls' = calls + 1
    /\ exitStatus' = "none"
    /\ finished' = <<>>
    /\ ncollected' = 0
    /\ downloaded_papers' = <<>>
    /\ raised' = "none"
    /\ saveFailed' = {}
    /\ digestWrites' = 0
    /\ savedInfo' = {}
    /\ failedBefore' = IF new_papers = <<>> THEN {}
                       ELSE {tasks[t].paper : t \in {u \in DOMAIN tasks :
                                                      tasks[u].result = "Failure"}}
    /\ LET ok == {tasks[t].paper : t \in {u \in DOMAIN tasks :
                                            tasks[u].result = "Success"}}
       IN  lastSuccesses' = IF new_papers # <<>> /\ ok # {} THEN <<ok>>
                            ELSE lastSuccesses

\* Lines 104-125: search, keep the papers without a PDF, return when there is
\* none, otherwise submit one future per new paper.
RunStart(hits) ==
    /\ FreshProcess
    /\ papers' = SelectSeq(IndexOrder, LAMBDA paper : paper \in hits)
    /\ new_papers' = NewPapers(papers', fs)
    /\ existing' = {paper \in hits : CanonicalPdf(paper) \in DOMAIN fs}
    /\ tasks' = [i \in 1..Len(new_papers') |-> NewTask(new_papers'[i])]
    /\ IF new_papers' = <<>>
       THEN mainpc' = "ended" /\ exitStatus' = "ok"
       ELSE mainpc' = "collect"
    /\ UNCHANGED <<env, fs, idmPending>>

\* The loop of lines 128-132 with save_paper_info and the append outside the
\* test of success.
Collect_SavesEveryOutcome ==
    /\ mainpc = "collect"
    /\ ncollected < Len(finished)
    /\ ncollected' = ncollected + 1
    /\ LET t == finished[ncollected + 1]
           paper == tasks[t].paper
           goOn == mainpc' = IF ncollected' = Len(tasks) THEN "digest" ELSE "collect"
       IN  CASE tasks[t].result = "SystemExit" ->
                  /\ raised' = "SystemExit"
                  /\ mainpc' = "shutdown"
                  /\ UNCHANGED <<fs, downloaded_papers, saveFailed, savedInfo>>
             [] tasks[t].result \in {"Success", "Failure"} ->
                  \E out \in {"saved", "raises"} :
                    CASE out = "saved" ->
                           /\ fs' = WriteFile(fs, info_path(paper), InfoOf(paper))
                           /\ savedInfo' = savedInfo \cup {paper}
                           /\ downloaded_papers' = Append(downloaded_papers, paper)
                           /\ goOn
                           /\ UNCHANGED <<saveFailed, raised>>
                      [] out = "raises" ->
                           /\ raised' = "Exception"
                           /\ mainpc' = "shutdown"
                           /\ saveFailed' = saveFailed \cup {paper}
                           /\ UNCHANGED <<fs, downloaded_papers, savedInfo>>
    /\ UNCHANGED <<env, idmPending, calls, exitStatus, papers, new_papers,
                   tasks, finished, digestWrites, existing, failedBefore,
                   lastSuccesses>>

\* Lines 128-132: as_completed hands over the next completed future.
\* future.result() re-raises what the invocation raised; a True outcome is
\* followed by save_paper_info, which writes info/<updated>/<id>.json or
\* raises (mkdir, open), and by the append.  An exception leaves the
\* loop and enters the exit of the with block.
Collect ==
    /\ mainpc = "collect"
    /\ ncollected < Len(finished)
    /\ ncollected' = ncollected + 1
    /\ LET t == finished[ncollected + 1]
           paper == tasks[t].paper
           goOn == mainpc' = IF ncollected' = Len(tasks) THEN "digest" ELSE "collect"
       IN  CASE tasks[t].result = "SystemExit" ->
                  /\ raised' = "SystemExit"
                  /\ mainpc' = "shutdown"
                  /\ UNCHANGED <<fs, downloaded_papers, saveFailed, savedInfo>>
             [] tasks[t].result = "Failure" ->
                  /\ goOn
                  /\ UNCHANGED <<fs, downloaded_papers, saveFailed, savedInfo, raised>>
             [] tasks[t].result = "Success" ->
                  \E out \in {"saved", "raises"} :
                    CASE out = "saved" ->
                           /\ fs' = WriteFile(fs, info_path(paper), InfoOf(paper))
                           /\ savedInfo' = savedInfo \cup {paper}
                           /\ downloaded_papers' = Append(downloaded_papers, paper)
                           /\ goOn
                           /\ UNCHANGED <<saveFailed, raised>>
                      [] out = "raises" ->
                           /\ raised' = "Exception"
                           /\ mainpc' = "shutdown"
                           /\ saveFailed' = saveFailed \cup {paper}
                           /\ UNCHANGED <<fs, downloaded_papers, savedInfo>>
    /\ UNCHANGED <<env, idmPending, calls, exitStatus, papers, new_papers,
                   tasks, finished, digestWrites, existing, failedBefore,
                   lastSuccesses>>

\* Line 120, the exit of the with block with an exception under way:
\* executor.shutdown(wait=True) returns once every submitted work item has
\* run, then the exception leaves run() and ends the process.
Shutdown ==
    /\ mainpc = "shutdown"
    /\ \A t \in DOMAIN tasks : tasks[t].pc = "done"
    /\ mainpc' = "ended"
    /\ exitStatus' = raised
    /\ UNCHANGED <<env, fs, idmPending, calls, ncollected, raised, tasks, finished,
                   runVars>>

\* Lines 134-138: the digest of this run's downloads, under today's date.
Digest ==
    /\ mainpc = "digest"
    /\ IF downloaded_papers # <<>>
       THEN LET day == strftime(RunDay)
                papers_by_date == [k \in {day} |-> downloaded_papers]
            IN  /\ fs' = WriteFile(fs, markdown_path(day),
                                   generate_markdown(papers_by_date, day))
                /\ digestWrites' = digestWrites + 1
       ELSE UNCHANGED <<fs, digestWrites>>
    /\ mainpc' = "ended"
    /\ exitStatus' = "ok"
    /\ UNCHANGED <<env, idmPending, calls, ncollected, raised, tasks, finished,
                   papers, new_papers, downloaded_papers, saveFailed, existing,
                   savedInfo, failedBefore, lastSuccesses>>

\* ---------------------------------------------------------- download_paper()
\* Lines 31-34: download_single_paper(paper, retry) in the calling thread.
DownloadPaper(paper) ==
    /\ FreshProcess
    /\ papers' = <<>>
    /\ new_papers' = <<>>
    /\ tasks' = <<NewTask(paper)>>
    /\ existing' = {}
    /\ mainpc' = "direct"
    /\ UNCHANGED <<env, fs, idmPending>>

\* download_paper returns None; a SystemExit ends the process.
DownloadPaperReturn ==
    /\ mainpc = "direct"
    /\ tasks[1].pc = "done"
    /\ mainpc' = "ended"
    /\ exitStatus' = IF tasks[1].result = "SystemExit" THEN "SystemExit" ELSE "ok"
    /\ UNCHANGED <<env, fs, idmPending, calls, ncollected, raised, tasks, finished,
                   runVars>>

\* ------------------------------------------------------------ specification
Next ==
    \/ \E hits \in SUBSET Papers : RunStart(hits)
    \/ \E paper \in Papers : DownloadPaper(paper)
    \/ \E t \in DOMAIN tasks : DownloadBegin(t)
    \/ \E t \in DOMAIN tasks : FastPathAria2c(t)
    \/ \E t \in DOMAIN tasks : FastPathIdm(t)
    \/ \E t \in DOMAIN tasks : IdmPoll(t)
    \/ \E t \in DOMAIN tasks : IdmResult(t)
    \/ \E paper \in Papers : IdmDeliver(paper)
    \/ \E t \in DOMAIN tasks : HttpGet(t)
    \/ \E t \in DOMAIN tasks : HttpOpen(t)
    \/ \E t \in DOMAIN tasks : HttpWrite(t)
    \/ \E t \in DOMAIN tasks : Backoff(t)
    \/ \E t \in DOMAIN tasks : GiveUp(t)
    \/ Collect
    \/ Shutdown
    \/ Digest
    \/ DownloadPaperReturn

Spec == Init /\ [][Next]_vars

\* ------------------------------------------- the digest of one set of downloads
\* Lines 127-137 of run() on their own: the futures of the successful downloads
\* complete in some order, downloaded_papers is appended to in that order and
\* generate_markdown is handed {today: downloaded_papers}.  Two runs over
\* the same successful downloads are set side by side.
PaperC == [id |-> 3, title |-> <<66>>, published |-> <<2, 7>>, updated |-> <<2, 7>>]
PaperD == [id |-> 4, title |-> <<97>>, published |-> <<2, 8>>, updated |-> <<3, 1>>]
DigestPapers == Papers \cup {PaperC, PaperD}

\* the orders a set of downloads can complete in
Orders(set) ==
    {o \in [1..Cardinality(set) -> set] : \A i, j \in DOMAIN o : i # j => o[i] # o[j]}

\* Lines 134-137 for a given downloaded_papers
RunDigest(downloaded) ==
    LET day == strftime(RunDay)
    IN  generate_markdown([k \in {day} |-> downloaded], day)

InitDigest ==
    /\ CrawlerInit
    /\ \E set \in SUBSET DigestPapers :
          /\ set # {}
          /\ orderOne \in Orders(set)
          /\ orderTwo \in Orders(set)
    /\ digestOne = <<>>
    /\ digestTwo = <<>>
    /\ mapping = <<>>
    /\ rendered = <<>>

DigestOfOne ==
    /\ digestOne = <<>>
    /\ digestOne' = <<RunDigest(orderOne)>>
    /\ UNCHANGED <<platform, toolInstalled, max_workers, fs, idmPending, mainVars,
                   runVars, tasks, finished, orderOne, orderTwo, digestTwo,
                   mapping, rendered>>

DigestOfTwo ==
    /\ digestTwo = <<>>
    /\ digestTwo' = <<RunDigest(orderTwo)>>
    /\ UNCHANGED <<platform, toolInstalled, max_workers, fs, idmPending, mainVars,
                   runVars, tasks, finished, orderOne, orderTwo, digestOne,
                   mapping, rendered>>

NextDigest == DigestOfOne \/ DigestOfTwo

SpecDigest == InitDigest /\ [][NextDigest]_vars

\* ------------------------------------------------- generate_markdown alone
\* generate_markdown called on its own with a mapping from date keys to lists
\* of records, the lists in any order.  (On an empty mapping the function
\* raises at min() of line 166, after the heading: no empty mapping here.)
DateKeys == {strftime(PaperA.published), strftime(PaperA.updated), strftime(RunDay)}

\* the lists of at most n records
RecordLists(n) == UNION {[1..k -> DigestPapers] : k \in 0..n}

InitMarkdown ==
    /\ CrawlerInit
    /\ platform = "linux"
    /\ toolInstalled
    /\ max_workers = 1
    /\ orderOne = <<>>
    /\ orderTwo = <<>>
    /\ digestOne = <<>>
    /\ digestTwo = <<>>
    /\ \E keys \in SUBSET DateKeys :
          /\ keys # {}
          /\ mapping \in [keys -> RecordLists(MaxRecords)]
    /\ rendered = <<>>

Render ==
    /\ rendered = <<>>
    /\ rendered' = <<generate_markdown(mapping, strftime(RunDay))>>
    /\ UNCHANGED <<platform, toolInstalled, max_workers, fs, idmPending, mainVars,
                   runVars, tasks, finished, orderOne, orderTwo, digestOne, digestTwo,
                   mapping>>

NextMarkdown == Render

SpecMarkdown == InitMarkdown /\ [][NextMarkdown]_vars

\* ------------------------------------------------------------------ claims
Started == {t \in DOMAIN tasks : tasks[t].pc # "queued"}
Returned == {t \in DOMAIN tasks : tasks[t].pc = "done"}
ListedIn(list) == {list[i] : i \in DOMAIN list}
IsRun == mainpc # "direct" /\ new_papers # <<>>
RunEnded == mainpc = "ended" /\ new_papers # <<>>
Succeeded == {tasks[t].paper : t \in {u \in DOMAIN tasks : tasks[u].result = "Success"}}
Failed == {t \in DOMAIN tasks : tasks[t].result = "Failure"}
\* the digest file of the run date, and the papers it lists
DigestFile == fs[markdown_path(strftime(RunDay))]
DigestListed ==
    UNION {ListedIn(DigestFile.sections[i].records) : i \in DOMAIN DigestFile.sections}

\* C1: an invocation of download_single_paper that finds the paper's canonical
\* PDF in place has returned Success as soon as it has begun, has started no
\* fast-path subprocess, issued no HTTP GET and written nothing, and
\* check_paper_exists answers true for the paper.
C1_ExistingFileIsSkipped ==
    \A t \in Started :
        tasks[t].existed =>
            /\ tasks[t].pc = "done"
            /\ tasks[t].result = "Success"
            /\ tasks[t].nsub = 0
            /\ tasks[t].nget = 0
            /\ ~tasks[t].wrote
            /\ ExistsAt(fs, tasks[t].paper)

\* On Linux an invocation has met an existing file and returned.
C1_Witness ==
    \E t \in Returned :
        /\ platform = "linux"
        /\ tasks[t].existed
        /\ tasks[t].result = "Success"

\* C3: no invocation issues more than retry GETs; an invocation whose fast
\* path did not succeed and whose every GET was answered with status 500 has,
\* once it has returned, issued exactly retry GETs and returned Failure.
C3_RetryBudget ==
    \A t \in DOMAIN tasks :
        /\ tasks[t].nget <= retry
        /\ (/\ tasks[t].pc = "done"
            /\ tasks[t].fast \in {"failed", "unavailable"}
            /\ tasks[t].all500)
           => (tasks[t].nget = retry /\ tasks[t].result = "Failure")

\* An invocation went through a failed fast path and retry answers of 500.
C3_Witness ==
    \E t \in Returned :
        /\ tasks[t].fast = "failed"
        /\ tasks[t].all500
        /\ tasks[t].nget = retry
        /\ tasks[t].result = "Failure"

C2_SavedAndListedAreTheSuccesses ==
    (RunEnded /\ \A t \in DOMAIN tasks : tasks[t].result \in {"Success", "Failure"}) =>
        LET nk == Len(tasks) - Cardinality(Failed)
        IN  /\ Cardinality(savedInfo) = nk
            /\ nk > 0 => /\ digestWrites = 1
                         /\ DigestListed = Succeeded
                         /\ DigestFile.total = nk

\* C4: after an invocation has returned Failure there is no file at the
\* paper's canonical PDF path.
C4_NoFileAfterFailure ==
    \A t \in Failed : CanonicalPdf(tasks[t].paper) \notin DOMAIN fs

\* C5: a run in which save_paper_info failed for some paper has, when it has
\* ended, collected every outcome, saved the metadata of every other
\* successful paper, kept the paper whose save failed in the digest list and
\* written the digest.
C5_SaveFailureDoesNotAbort ==
    (mainpc = "ended" /\ saveFailed # {}) =>
        /\ ncollected = Len(tasks)
        /\ Succeeded \ saveFailed \subseteq savedInfo
        /\ saveFailed \subseteq ListedIn(downloaded_papers)
        /\ digestWrites = 1

\* C6: the digests of two runs over the same successful downloads are equal,
\* whatever the orders the downloads completed in.
C6_DigestIndependentOfOrder ==
    (digestOne # <<>> /\ digestTwo # <<>>) => digestOne = digestTwo

\* C8: a run writes the digest at most once, only when every download has
\* completed, with exactly the successful papers under the run date; when it
\* has ended it has written the digest if and only if a download returned
\* Success, and a run whose downloads all returned Failure ends without error.
C8_DigestIffSuccess ==
    (papers # <<>> /\ new_papers # <<>>) =>
        /\ digestWrites <= 1
        /\ digestWrites = 1 =>
             /\ Returned = DOMAIN tasks
             /\ DigestFile.heading = strftime(RunDay)
             /\ {DigestFile.sections[i].pub_date : i \in DOMAIN DigestFile.sections}
                  = {strftime(RunDay)}
             /\ DigestListed = Succeeded
        /\ mainpc = "ended" => (digestWrites = 1 <=> Succeeded # {})
        /\ (mainpc = "ended" /\ Failed = DOMAIN tasks) => exitStatus = "ok"

\* C9: in a run, every search hit whose download returned Failure in the run
\* before is classified as new, and so gets a download task.
C9_FailedIsRetried ==
    \A paper \in failedBefore \cap ListedIn(papers) : paper \in ListedIn(new_papers)

\* C10: on Linux without aria2c no download task begins after a worker has
\* met the missing executable, no GET is issued, no metadata is saved, no
\* digest is written and a run that dispatched downloads ends with a non-zero
\* outcome.
C10_MissingToolStopsRun ==
    (platform = "linux" /\ ~toolInstalled) =>
        /\ \A t \in DOMAIN tasks : ~tasks[t].late /\ tasks[t].nget = 0
        /\ savedInfo = {}
        /\ digestWrites = 0
        /\ RunEnded => exitStatus = "SystemExit"

\* C11: on Windows with IDMan.exe not installed nothing ends a run or an
\* invocation with SystemExit; an invocation starts no subprocess and waits
\* for no file, issues at most retry HTTP GETs, and when it has returned for a
\* paper whose PDF was not there it has made at least one GET, with Success
\* exactly when a 200 response was written to the file and Failure only after
\* retry attempts; a run that has ended has put every new paper through this.
C11_MissingIdmFallsBack ==
    (platform = "windows" /\ ~toolInstalled) =>
        /\ exitStatus # "SystemExit"
        /\ raised # "SystemExit"
        /\ idmPending = {}
        /\ \A t \in Started :
              /\ tasks[t].nsub = 0
              /\ tasks[t].polls = 0
              /\ tasks[t].result # "SystemExit"
              /\ tasks[t].fast \in {"none", "unavailable"}
              /\ tasks[t].nget <= retry
              /\ (t \in Returned /\ ~tasks[t].existed) =>
                    /\ tasks[t].fast = "unavailable"
                    /\ tasks[t].nget >= 1
                    /\ tasks[t].result = "Success" <=>
                          (tasks[t].got200 /\ tasks[t].wrote /\
                           fs[CanonicalPdf(tasks[t].paper)] = "complete")
                    /\ tasks[t].result = "Failure" <=> tasks[t].attempt = retry
        /\ RunEnded => \A t \in DOMAIN tasks :
                          /\ tasks[t].result \in {"Success", "Failure"}
                          /\ tasks[t].nget >= 1

C11_Witness ==
    /\ platform = "windows"
    /\ ~toolInstalled
    /\ RunEnded
    /\ exitStatus = "ok"
    /\ \E t, u \in DOMAIN tasks :
          /\ tasks[t].result = "Success" /\ tasks[t].fast = "unavailable"
          /\ tasks[t].nget > 1
          /\ tasks[u].result = "Failure" /\ tasks[u].nget = retry

\* C12: the download tasks of a run have pairwise different canonical PDF
\* paths, and while an invocation has its PDF open for the write of the plain
\* download nothing else writes that path.
C12_NoTwoWritersOnOnePath ==
    /\ \A t, u \in DOMAIN tasks :
          t # u => CanonicalPdf(tasks[t].paper) # CanonicalPdf(tasks[u].paper)
    /\ \A t \in DOMAIN tasks : ~tasks[t].clash

\* C13: at every moment at most max_workers invocations of
\* download_single_paper have begun and not returned, so a pool thread has
\* begun a further invocation only after the one it was in returned.
C13_AtMostMaxWorkersRunning ==
    /\ Cardinality(Running) <= max_workers
    /\ Cardinality(Started) <= Cardinality(Returned) + max_workers

C13_Witness ==
    /\ IsRun
    /\ Cardinality(Running) = max_workers
    /\ Returned # {}
    /\ \E t \in DOMAIN tasks : tasks[t].pc = "get" /\ tasks[t].nget > 0

C13_WitnessWaiting ==
    /\ IsRun
    /\ Cardinality(Running) = max_workers
    /\ \E t \in DOMAIN tasks : tasks[t].pc = "queued"

\* C14: when a run in which a download task failed has ended, every task it
\* dispatched has returned with its own Success or Failure and the
\* orchestrator has taken the outcome of every one of them from its future.
C14_EveryOutcomeCollected ==
    (RunEnded /\ Failed # {}) =>
        /\ \A t \in DOMAIN tasks : /\ tasks[t].pc = "done"
                                    /\ tasks[t].result \in {"Success", "Failure"}
        /\ ncollected = Len(tasks)

\* the papers downloaded in the most recent run that had a Success, the run
\* that has just ended included
LatestSuccessfulRun ==
    IF new_papers # <<>> /\ Succeeded # {} THEN <<Succeeded>> ELSE lastSuccesses

\* C15: whenever a process has ended, the digest file of the run date lists
\* exactly the papers downloaded successfully in the most recent run that had
\* at least one Success, and there is no digest file while no run had one.
C15_DigestIsOfLatestSuccessfulRun ==
    mainpc = "ended" =>
        IF LatestSuccessfulRun = <<>>
        THEN markdown_path(strftime(RunDay)) \notin DOMAIN fs
        ELSE /\ markdown_path(strftime(RunDay)) \in DOMAIN fs
             /\ DigestListed = LatestSuccessfulRun[1]

\* C16: inside one invocation an HTTP GET has been issued only after the
\* fast path failed or was found unavailable, never after it succeeded; the
\* invocation has the PDF open for the fallback write only with a 200
\* response in hand; and once an attempt succeeded nothing follows it: the
\* invocation has returned and its latest GET, if any, is the one written.
C16_FirstSuccessWins ==
    \A t \in DOMAIN tasks :
        /\ tasks[t].nsub <= 1
        /\ tasks[t].pc = "fast" => tasks[t].nget = 0
        /\ tasks[t].nget > 0 => tasks[t].fast \in {"failed", "unavailable"}
        /\ tasks[t].pc \in {"get", "write", "writing", "sleep"} =>
              /\ tasks[t].fast \in {"failed", "unavailable"}
              /\ tasks[t].result = "none"
        /\ tasks[t].fast = "ok" =>
              /\ tasks[t].nget = 0
              /\ ~tasks[t].wrote
              /\ tasks[t].pc = "done"
              /\ tasks[t].result = "Success"
        /\ tasks[t].pc \in {"write", "writing"} => tasks[t].got200
        /\ tasks[t].wrote => ~tasks[t].all500
        /\ tasks[t].result = "Success" =>
              /\ tasks[t].pc = "done"
              /\ tasks[t].nget > 0 => (tasks[t].got200 /\ tasks[t].wrote)

C16_Witness ==
    \E t, u \in DOMAIN tasks :
        /\ tasks[t].result = "Success" /\ tasks[t].fast = "failed"
        /\ tasks[t].nsub = 1 /\ tasks[t].nget = 2 /\ tasks[t].wrote
        /\ tasks[u].result = "Success" /\ tasks[u].fast = "ok" /\ tasks[u].nsub = 1

\* C17: whenever the loop of the plain download, with an attempt behind it,
\* stands at the requests.get of a further attempt, time.sleep has been
\* called since the earlier attempt ended.
C17_BackoffBetweenAttempts ==
    \A t \in DOMAIN tasks :
        (tasks[t].pc = "get" /\ tasks[t].nget > 0 /\ MoreAttempts(tasks[t].attempt))
            => tasks[t].slept

\* C18: on Windows an invocation that handed the URL to IDM polls for no
\* longer than the window and then declares the fast path successful exactly
\* when the existence test that closes the window finds the canonical PDF,
\* with either exit code of IDMan.exe; it then returns Success without any
\* GET, and when the test finds no file it goes on to the plain download and
\* returns only after at least one GET.
C18_FileDecidesIdmFastPath ==
    platform = "windows" =>
        \A t \in DOMAIN tasks :
            /\ tasks[t].pc \in {"poll", "polled"} =>
                  /\ tasks[t].exitcode \in {"zero", "nonzero"}
                  /\ tasks[t].polls <= MaxPolls
                  /\ tasks[t].result = "none"
                  /\ tasks[t].nget = 0
            /\ tasks[t].fast = "ok" <=> tasks[t].atCheck = "present"
            /\ tasks[t].atCheck = "present" =>
                  /\ tasks[t].pc = "done"
                  /\ tasks[t].result = "Success"
                  /\ tasks[t].nget = 0
            /\ tasks[t].atCheck = "absent" =>
                  /\ tasks[t].fast = "failed"
                  /\ tasks[t].pc \in {"get", "write", "writing", "sleep", "done"}
                  /\ tasks[t].pc = "done" => tasks[t].nget >= 1

C18_Witness ==
    /\ platform = "windows"
    /\ \E t, u \in DOMAIN tasks :
          /\ tasks[t].exitcode = "nonzero" /\ tasks[t].atCheck = "present"
          /\ tasks[t].polls >= 1 /\ tasks[t].result = "Success"
          /\ tasks[u].atCheck = "absent" /\ tasks[u].result = "Failure"

\* a step of the invocation behind task t
InvocationStep(t) ==
    \/ FastPathAria2c(t)
    \/ FastPathIdm(t)
    \/ IdmPoll(t)
    \/ IdmResult(t)
    \/ HttpGet(t)
    \/ HttpOpen(t)
    \/ HttpWrite(t)
    \/ Backoff(t)
    \/ GiveUp(t)

\* C19: an invocation that has begun and not returned is never left without
\* a next step: every wait it is in (for the fast-path tool, for an HTTP
\* answer, for the backoff) comes to an end by itself, and it has made no
\* more than retry attempts.
C19_InvocationNeverStuck ==
    \A t \in Started \ Returned :
        /\ ENABLED InvocationStep(t)
        /\ tasks[t].attempt <= retry

\* how often record x occurs in a list
Occurrences(list, x) == Cardinality({i \in DOMAIN list : list[i] = x})

\* C20: whatever mapping generate_markdown is given and whatever the order of
\* the records in its lists, the sections it writes are the mapping's date
\* keys in strictly descending order, and each section holds the records of
\* its key in ascending order of the lower-cased title.
C20_SectionsAndRecordsOrdered ==
    rendered # <<>> =>
        LET out == rendered[1].sections
        IN  /\ Len(out) = Cardinality(DOMAIN mapping)
            /\ \A i \in DOMAIN out : out[i].pub_date \in DOMAIN mapping
            /\ \A i, j \in DOMAIN out : i < j => out[i].pub_date > out[j].pub_date
            /\ \A i \in DOMAIN out :
                  LET given == mapping[out[i].pub_date]
                      recs == out[i].records
                  IN  /\ Len(recs) = Len(given)
                      /\ \A x \in DigestPapers :
                            Occurrences(recs, x) = Occurrences(given, x)
                      /\ \A j, k \in DOMAIN recs :
                            j < k => ~StrLess(Lower(recs[k].title), Lower(recs[j].title))

C20_Witness ==
    /\ rendered # <<>>
    /\ Len(rendered[1].sections) = 3
    /\ \E i \in DOMAIN rendered[1].sections :
          /\ mapping[rendered[1].sections[i].pub_date] = <<PaperC, PaperB>>
          /\ rendered[1].sections[i].records = <<PaperB, PaperC>>

\* The path of a paper's metadata in the filesystem layout:
\* <root>/info/<updated_date>/<id>.json
CanonicalInfo(paper) == <<"info", paper.updated[1], paper.id>>

\* C21: every file under info/ is the metadata of a paper whose PDF exists at
\* its canonical path; the metadata saved by the process under way are of
\* papers whose download returned Success; and a download that returned
\* Success has its PDF at the canonical path.
C21_MetadataOnlyWithPdf ==
    /\ \A path \in DOMAIN fs :
          path[1] = "info" =>
              \E paper \in Papers :
                  /\ path = CanonicalInfo(paper)
                  /\ fs[path].id = paper.id
                  /\ CanonicalPdf(paper) \in DOMAIN fs
    /\ savedInfo \subseteq Succeeded
    /\ \A t \in DOMAIN tasks :
          tasks[t].result = "Success" => CanonicalPdf(tasks[t].paper) \in DOMAIN fs

C21_Witness ==
    /\ calls = 2
    /\ RunEnded
    /\ CanonicalInfo(PaperA) \in DOMAIN fs
    /\ CanonicalInfo(PaperB) \in DOMAIN fs
    /\ savedInfo = {PaperA}
    /\ Failed = {}

====
